---- MODULE Spec2Model ----
(***************************************************************************)
(* Model of src/src/rust.rs: the Runtime wrapper over the JSRuntime and    *)
(* JSContext handles of SpiderMonkey (rt_rsrc, Cx, Runtime), the           *)
(* reportError callback and with_compartment.                              *)
(*                                                                         *)
(* The program is single threaded.  Calls that are in progress (a native   *)
(* JS_EvaluateUCScript call, the body of a with_compartment) are frames of *)
(* `stack`; whatever runs inside them runs while the frame is on the stack.*)
(* Every native call is appended, when it is issued, to the log of the     *)
(* engine it concerns.                                                     *)
(***************************************************************************)
EXTENDS Integers, Sequences, FiniteSets, TLC

\* ------------------------------------------------------------------ bounds
MaxRuntimes == 2      \* calls of Runtime::new (engines the natives hand out)
MaxHeld     == 3      \* Runtime, rt and cx values the program holds at once
MaxDepth    == 2      \* calls in progress at once
MaxScriptLen == 1     \* characters of a script text
MaxNameLen  == 1      \* characters of a source name
MaxBytes    == 2      \* bytes of a C string the engine reports
MaxEnters   == 3      \* calls of with_compartment

\* --------------------------------------------------------- program constants
NULL    == 0           \* the null pointer
ERR     == 0           \* the JSBool status JS_EvaluateUCScript fails with

Slots == 1..MaxRuntimes

\* The pointers the native allocators return for the i-th construction.
EnginePtr(i)  == i
ContextPtr(i) == i

VARIABLES
    heap,       \* heap[i]: the rt_rsrc and Cx cells made by the i-th Runtime::new
    held,       \* held[i]: the values the program holds that refer to them,
                \* and whether it has dropped a Runtime value of engine i
    nlog,       \* nlog[i]: the native calls issued for engine i, in order
    stack,      \* the calls in progress, innermost last
    last,       \* the most recent event: a call of this layer that ended,
                \* or the native call it has just issued
    marshalFailed, \* engines on which an evaluate_script failed to marshal
    wcLog,      \* the enter/leave compartment calls, in order
    aborted     \* the process has aborted

vars == <<heap, held, nlog, stack, last, marshalFailed, wcLog, aborted>>

\* --------------------------------------------------------------- native log
Call(name, handle, ret, arg) ==
    [call |-> name, h |-> handle, ret |-> ret, arg |-> arg]

Count(log, name) == Cardinality({k \in 1..Len(log) : log[k].call = name})

\* ---------------------------------------------------- Rc<rt_rsrc> and Rc<Cx>
NoCell == [rt_ptr |-> NULL, cx_ptr |-> NULL, rtStrong |-> 0, cxStrong |-> 0,
           built |-> FALSE]

\* A cell together with the log its destructors write to.
\* impl Drop for rt_rsrc
rt_rsrc_drop(c) ==
    [c EXCEPT !.log = Append(@, Call("JS_Finish", c.cell.rt_ptr, NULL, ""))]

\* Rc_rt_drop, were every drop of an Rc<rt_rsrc> to run the destructor.
Rc_rt_drop_Eager(c) ==
    rt_rsrc_drop([c EXCEPT !.cell.rtStrong = @ - 1])

\* Dropping one Rc<rt_rsrc>: the last one runs the destructor.
Rc_rt_drop(c) ==
    LET d == [c EXCEPT !.cell.rtStrong = @ - 1]
    IN  IF d.cell.rtStrong = 0 THEN rt_rsrc_drop(d) ELSE d

\* impl Drop for Cx, followed by the drop of its fields (ptr, rt).
Cx_drop(c) ==
    Rc_rt_drop([c EXCEPT !.log =
        Append(@, Call("JS_DestroyContext", c.cell.cx_ptr, NULL, ""))])

\* Dropping one Rc<Cx>.
Rc_cx_drop(c) ==
    LET d == [c EXCEPT !.cell.cxStrong = @ - 1]
    IN  IF d.cell.cxStrong = 0 THEN Cx_drop(d) ELSE d

\* Dropping a Runtime drops its fields in declaration order: rt, then cx.
Runtime_drop(c) == Rc_cx_drop(Rc_rt_drop(c))

\* Rc::clone adds one strong reference.
Rc_rt_clone(cell) == [cell EXCEPT !.rtStrong = @ + 1]

\* Rc_cx_clone, were the clone a deep copy that owns a context of its own.
Rc_cx_clone_Deep(cell) ==
    [cell EXCEPT !.cx_ptr = @ + MaxRuntimes, !.cxStrong = @ + 1]

Rc_cx_clone(cell) == [cell EXCEPT !.cxStrong = @ + 1]

\* Runtime_clone, were the clone a bitwise copy of the two pointers.
Runtime_clone_Bitwise(cell) == cell

\* #[derive(Clone)] for Runtime clones both fields.
Runtime_clone(cell) == Rc_cx_clone(Rc_rt_clone(cell))

\* Runtime::rt and Runtime::cx
Runtime_rt(i) == heap[i].rt_ptr
Runtime_cx(i) == heap[i].cx_ptr

\* ------------------------------------------------------------- Runtime::new
\* ConfigCalls, were the error reporter installed last.
ConfigCalls_ReporterLast(cx) ==
    << Call("JS_SetOptions", cx, NULL,
            "VAROBJFIX|METHODJIT|TYPE_INFERENCE|DONT_REPORT_UNCAUGHT|AUTOJSAPI_OWNS_ERROR_REPORTING"),
       Call("JS_SetVersion", cx, NULL, "JSVERSION_LATEST"),
       Call("JS_SetGCZeal", cx, NULL, "0"),
       Call("JS_SetErrorReporter", cx, NULL, "reportError") >>

\* The configuration calls of Runtime::new on the new context.
ConfigCalls(cx) ==
    << Call("JS_SetOptions", cx, NULL,
            "VAROBJFIX|METHODJIT|TYPE_INFERENCE|DONT_REPORT_UNCAUGHT|AUTOJSAPI_OWNS_ERROR_REPORTING"),
       Call("JS_SetVersion", cx, NULL, "JSVERSION_LATEST"),
       Call("JS_SetErrorReporter", cx, NULL, "reportError"),
       Call("JS_SetGCZeal", cx, NULL, "0") >>

\* Runtime_new_calls, were the engine put in its rt_rsrc before the context
\* is created: the unwinding of the second assert would finalize it.
Runtime_new_calls_OwnedEarly(rtRet, cxRet) ==
    LET init == << Call("JS_Init", NULL, rtRet, "default_heapsize") >>
        gc   == << Call("JS_SetGCParameter", rtRet, NULL, "JSGC_MAX_BYTES=u32::MAX") >>
        ctx  == << Call("JS_NewContext", rtRet, cxRet, "default_stacksize") >>
        fin  == << Call("JS_Finish", rtRet, NULL, "") >>
    IN  IF rtRet = NULL THEN init
        ELSE IF cxRet = NULL THEN init \o gc \o ctx \o fin
        ELSE init \o gc \o ctx \o ConfigCalls(cxRet)

\* The native calls Runtime::new issues when JS_Init returns rtRet and
\* JS_NewContext returns cxRet; an assert that fails ends the sequence.
Runtime_new_calls(rtRet, cxRet) ==
    LET init == << Call("JS_Init", NULL, rtRet, "default_heapsize") >>
        gc   == << Call("JS_SetGCParameter", rtRet, NULL, "JSGC_MAX_BYTES=u32::MAX") >>
        ctx  == << Call("JS_NewContext", rtRet, cxRet, "default_stacksize") >>
    IN  IF rtRet = NULL THEN init
        ELSE IF cxRet = NULL THEN init \o gc \o ctx
        ELSE init \o gc \o ctx \o ConfigCalls(cxRet)

\* Runtime_new_ok, were the two asserts absent.
Runtime_new_ok_Unchecked(rtRet, cxRet) == TRUE

\* assert!(!js_runtime.is_null()) and assert!(!js_context.is_null())
Runtime_new_ok(rtRet, cxRet) == rtRet # NULL /\ cxRet # NULL

\* Runtime_new_cell, were Cx built without its own reference to the engine.
Runtime_new_cell_NoBackRef(rtRet, cxRet) ==
    [rt_ptr |-> rtRet, cx_ptr |-> cxRet, rtStrong |-> 1, cxStrong |-> 1,
     built |-> TRUE]

\* Rc::new(rt_rsrc), Rc::new(Cx { rt: js_runtime.clone() }), Runtime { .. }
Runtime_new_cell(rtRet, cxRet) ==
    [rt_ptr |-> rtRet, cx_ptr |-> cxRet, rtStrong |-> 2, cxStrong |-> 1,
     built |-> TRUE]

\* ----------------------------------------------------------- text marshaling
\* A String is the sequence of its characters (Unicode scalar values), a byte
\* string the sequence of its bytes, a usize the pair of its high and low
\* 32-bit halves.
usize(n) == [hi |-> 0, lo |-> n]

\* `x as c_uint`: c_uint is 32 bits wide, the conversion keeps the low half.
as_c_uint(n) == n.lo

\* char::encode_utf16: one unit below U+10000, a surrogate pair from there on.
encode_utf16(c) ==
    IF c < 65536 THEN <<c>>
    ELSE << 55296 + ((c - 65536) \div 1024), 56320 + ((c - 65536) % 1024) >>

\* script.utf16_units().collect()
RECURSIVE utf16_units(_)
utf16_units(s) ==
    IF s = <<>> THEN <<>> ELSE encode_utf16(Head(s)) \o utf16_units(Tail(s))

\* The UTF-8 encoding of one character.
encode_utf8(c) ==
    IF c < 128 THEN <<c>>
    ELSE IF c < 2048 THEN << 192 + (c \div 64), 128 + (c % 64) >>
    ELSE IF c < 65536
         THEN << 224 + (c \div 4096), 128 + ((c \div 64) % 64), 128 + (c % 64) >>
         ELSE << 240 + (c \div 262144), 128 + ((c \div 4096) % 64),
                 128 + ((c \div 64) % 64), 128 + (c % 64) >>

\* filename.as_bytes()
RECURSIVE as_bytes(_)
as_bytes(s) ==
    IF s = <<>> THEN <<>> ELSE encode_utf8(Head(s)) \o as_bytes(Tail(s))

\* CString_new, were the bytes cut at the first 0 instead of refused.
CString_new_Truncating(bytes) ==
    [ok |-> TRUE,
     bytes |-> SubSeq(bytes, 1,
                 Cardinality({k \in 1..Len(bytes) :
                                \A j \in 1..k : bytes[j] # 0}))]

\* ffi::CString::new(bytes): an error when a byte is 0.
CString_new(bytes) ==
    IF \E k \in 1..Len(bytes) : bytes[k] = 0
    THEN [ok |-> FALSE, bytes |-> <<>>]
    ELSE [ok |-> TRUE, bytes |-> bytes]

\* ScriptBuf, were the pointer of the vector taken for every text: an empty
\* vector has no buffer.
ScriptBuf_NoSubstitute(units) ==
    [ptr |-> IF Len(units) = 0 THEN "null" ELSE "vec",
     len |-> as_c_uint(usize(Len(units)))]

\* The (ptr, len) pair of evaluate_script: "empty" is the address of the
\* static empty slice, "vec" the address of the buffer of script_utf16.
ScriptBuf(units) ==
    IF Len(units) = 0
    THEN [ptr |-> "empty", len |-> 0]
    ELSE [ptr |-> "vec", len |-> as_c_uint(usize(Len(units)))]

is_null(ptr) == ptr = "null"

\* EvalResult, were only the status 1 (JS_TRUE) taken for success.
EvalResult_OnlyTrue(status) == IF status = 1 THEN "Ok" ELSE "Err"

\* Result<(), ()> from the native status.
EvalResult(status) == IF status = ERR THEN "Err" ELSE "Ok"

\* -------------------------------------------------------------- reportError
\* A C string pointer: null, or the bytes up to the terminator.
NullStr == [null |-> TRUE, bytes |-> <<>>]
CStr(bytes) == [null |-> FALSE, bytes |-> bytes]

IsCont(b) == b >= 128 /\ b <= 191

\* The length of the UTF-8 sequence a byte starts, 0 when it starts none.
Utf8Width(b) ==
    IF b < 128 THEN 1
    ELSE IF b >= 194 /\ b <= 223 THEN 2
    ELSE IF b >= 224 /\ b <= 239 THEN 3
    ELSE IF b >= 240 /\ b <= 244 THEN 4
    ELSE 0

\* Utf8Char, were the payload bits of the lead byte not shifted.
Utf8Char_Unshifted(b, n) ==
    IF n = 1 THEN b[1]
    ELSE IF n = 2 THEN (b[1] - 192) + (b[2] - 128)
    ELSE IF n = 3 THEN (b[1] - 224) + (b[2] - 128) + (b[3] - 128)
    ELSE (b[1] - 240) + (b[2] - 128) + (b[3] - 128) + (b[4] - 128)

\* The character a well-formed sequence of n bytes encodes.
Utf8Char(b, n) ==
    IF n = 1 THEN b[1]
    ELSE IF n = 2 THEN (b[1] - 192) * 64 + (b[2] - 128)
    ELSE IF n = 3 THEN (b[1] - 224) * 4096 + (b[2] - 128) * 64 + (b[3] - 128)
    ELSE (b[1] - 240) * 262144 + (b[2] - 128) * 4096 + (b[3] - 128) * 64
         + (b[4] - 128)

\* str::from_utf8(bytes).ok(): the characters, or None for ill-formed bytes.
RECURSIVE from_utf8(_)
from_utf8(b) ==
    IF b = <<>> THEN [ok |-> TRUE, chars |-> <<>>]
    ELSE LET n == Utf8Width(b[1])
         IN  IF \/ n = 0
                \/ Len(b) < n
                \/ \E k \in 2..n : ~IsCont(b[k])
                \/ (b[1] = 224 /\ b[2] < 160)
                \/ (b[1] = 237 /\ b[2] > 159)
                \/ (b[1] = 240 /\ b[2] < 144)
                \/ (b[1] = 244 /\ b[2] > 143)
             THEN [ok |-> FALSE, chars |-> <<>>]
             ELSE LET rest == from_utf8(SubSeq(b, n + 1, Len(b)))
                  IN  IF rest.ok
                      THEN [ok |-> TRUE, chars |-> <<Utf8Char(b, n)>> \o rest.chars]
                      ELSE rest

\* NoneName, were the sentinel the word "unknown".
NoneName_Unknown == <<117, 110, 107, 110, 111, 119, 110>>

NoneName == <<110, 111, 110, 101>>     \* "none"

\* reportError(_cx, msg, report): unwrap() panics on None; otherwise error!
\* writes one record.
reportError(msg, report) ==
    LET fname == IF ~report.filename.null
                 THEN from_utf8(report.filename.bytes)
                 ELSE [ok |-> TRUE, chars |-> NoneName]
        text  == from_utf8(msg.bytes)
    IN  IF ~fname.ok THEN [panic |-> TRUE, line |-> 162, emitted |-> <<>>]
        ELSE IF ~text.ok THEN [panic |-> TRUE, line |-> 168, emitted |-> <<>>]
        ELSE [panic |-> FALSE, line |-> 0,
              emitted |-> << [fname |-> fname.chars, lineno |-> report.lineno,
                              msg |-> text.chars] >>]

\* ------------------------------------------------------------------ panics
\* A panic unwinds every call in progress.  Unwinding out of a native frame
\* (an extern "C" function, or through JS_EvaluateUCScript) is undefined:
\* the process aborts or the unwinding goes through.
InNative == \E k \in 1..Len(stack) : stack[k].kind = "eval"

PanicEnds(crossesNative) ==
    IF crossesNative THEN {"panic", "abort"} ELSE {"panic"}

NoReport == [filename |-> NullStr, lineno |-> 0]

NoEval == [cx |-> NULL, global |-> NULL, ptr |-> "none", len |-> 0,
           filename |-> <<>>, line |-> 0]

\* An event: op is the call, res how it ended, line the source line of the
\* panic that ended it, status the native status it saw, text and name the
\* script and the source name evaluate_script was given (the name alone when
\* it panicked), native the arguments of the native evaluate call, emitted
\* the DiagnosticRecords written by error!, ret the value a closure returned,
\* msg and report the arguments reportError was called with, diag whether
\* reportError wrote a record while the evaluate_script that returns ran,
\* line_num the starting line evaluate_script was given.
NoEvent ==
    [op |-> "none", slot |-> 0, res |-> "none", line |-> 0, status |-> 0,
     text |-> <<>>, name |-> <<>>, native |-> NoEval, emitted |-> <<>>,
     ret |-> 0, msg |-> NullStr, report |-> NoReport, diag |-> FALSE,
     line_num |-> usize(0)]

Event(op, slot, res) ==
    [NoEvent EXCEPT !.op = op, !.slot = slot, !.res = res]

Panicked(op, slot, res, line) == [Event(op, slot, res) EXCEPT !.line = line]

Init ==
    /\ heap = [i \in Slots |-> NoCell]
    /\ held = [i \in Slots |-> [runtime |-> 0, rt |-> 0, cx |-> 0,
                                 dropped |-> FALSE]]
    /\ nlog = [i \in Slots |-> <<>>]
    /\ stack = <<>>
    /\ last = NoEvent
    /\ marshalFailed = {}
    /\ wcLog = <<>>
    /\ aborted = FALSE

Unused == {i \in Slots : nlog[i] = <<>>}

\* The number of Runtime, rt and cx values the program holds.
RECURSIVE HeldUpTo(_)
HeldUpTo(n) ==
    IF n = 0 THEN 0
    ELSE held[n].runtime + held[n].rt + held[n].cx + HeldUpTo(n - 1)

HeldTotal == HeldUpTo(MaxRuntimes)

\* Runtime::new()
New ==
    /\ ~aborted
    /\ Unused # {}
    /\ HeldTotal < MaxHeld
    /\ LET i == CHOOSE j \in Unused : \A k \in Unused : j <= k
       IN \E rtRet \in {NULL, EnginePtr(i)}, cxRet \in {NULL, ContextPtr(i)} :
            /\ nlog' = [nlog EXCEPT ![i] = Runtime_new_calls(rtRet, cxRet)]
            /\ IF Runtime_new_ok(rtRet, cxRet)
               THEN /\ heap' = [heap EXCEPT ![i] = Runtime_new_cell(rtRet, cxRet)]
                    /\ held' = [held EXCEPT ![i].runtime = 1]
                    /\ last' = Event("new", i, "Runtime")
                    /\ UNCHANGED <<stack, aborted>>
               ELSE /\ UNCHANGED <<heap, held>>
                    /\ \E e \in PanicEnds(InNative) :
                         /\ last' = Panicked("new", i, e,
                                              IF rtRet = NULL THEN 39 ELSE 53)
                         /\ aborted' = (e = "abort")
                         /\ stack' = <<>>
    /\ UNCHANGED <<marshalFailed, wcLog>>

\* A Runtime value that a call in progress borrows (&self) cannot be dropped.
Borrowed(i) ==
    IF \E k \in 1..Len(stack) : stack[k].kind = "eval" /\ stack[k].slot = i
    THEN 1 ELSE 0

\* runtime.clone()
Clone(i) ==
    /\ ~aborted
    /\ held[i].runtime > 0
    /\ HeldTotal < MaxHeld
    /\ heap' = [heap EXCEPT ![i] = Runtime_clone(@)]
    /\ held' = [held EXCEPT ![i].runtime = @ + 1]
    /\ last' = Event("clone", i, "Runtime")
    /\ UNCHANGED <<nlog, stack, marshalFailed, wcLog, aborted>>

\* runtime.rt.clone(): the field is pub
CloneRt(i) ==
    /\ ~aborted
    /\ held[i].runtime + held[i].rt > 0
    /\ HeldTotal < MaxHeld
    /\ heap' = [heap EXCEPT ![i] = Rc_rt_clone(@)]
    /\ held' = [held EXCEPT ![i].rt = @ + 1]
    /\ last' = Event("clone_rt", i, "rt")
    /\ UNCHANGED <<nlog, stack, marshalFailed, wcLog, aborted>>

\* runtime.cx.clone(): the field is pub
CloneCx(i) ==
    /\ ~aborted
    /\ held[i].runtime + held[i].cx > 0
    /\ HeldTotal < MaxHeld
    /\ heap' = [heap EXCEPT ![i] = Rc_cx_clone(@)]
    /\ held' = [held EXCEPT ![i].cx = @ + 1]
    /\ last' = Event("clone_cx", i, "cx")
    /\ UNCHANGED <<nlog, stack, marshalFailed, wcLog, aborted>>

Dropped(i, d, op) ==
    /\ heap' = [heap EXCEPT ![i] = d.cell]
    /\ nlog' = [nlog EXCEPT ![i] = d.log]
    /\ last' = Event(op, i, "done")
    /\ UNCHANGED <<stack, marshalFailed, wcLog, aborted>>

\* drop(runtime)
DropRuntime(i) ==
    /\ ~aborted
    /\ held[i].runtime > Borrowed(i)
    /\ held' = [held EXCEPT ![i].runtime = @ - 1, ![i].dropped = TRUE]
    /\ Dropped(i, Runtime_drop([cell |-> heap[i], log |-> nlog[i]]), "drop")

\* drop of a cloned rt field
DropRt(i) ==
    /\ ~aborted
    /\ held[i].rt > 0
    /\ held' = [held EXCEPT ![i].rt = @ - 1]
    /\ Dropped(i, Rc_rt_drop([cell |-> heap[i], log |-> nlog[i]]), "drop_rt")

\* drop of a cloned cx field
DropCx(i) ==
    /\ ~aborted
    /\ held[i].cx > 0
    /\ held' = [held EXCEPT ![i].cx = @ - 1]
    /\ Dropped(i, Rc_cx_drop([cell |-> heap[i], log |-> nlog[i]]), "drop_cx")

\* evaluate_script up to its native call: the text and the name are
\* marshaled, then JS_EvaluateUCScript is entered.
EvalBegin(i, global, script, filename, line_num) ==
    /\ ~aborted
    /\ held[i].runtime > 0
    /\ Len(stack) < MaxDepth
    /\ LET script_utf16  == utf16_units(script)
           filename_cstr == CString_new(as_bytes(filename))
           buf           == ScriptBuf(script_utf16)
       IN  IF ~filename_cstr.ok \/ is_null(buf.ptr)
           THEN /\ \E e \in PanicEnds(InNative) :
                     /\ last' = [Panicked("evaluate_script", i, e,
                                           IF filename_cstr.ok THEN 107 ELSE 97)
                                   EXCEPT !.name = filename]
                     /\ aborted' = (e = "abort")
                /\ stack' = <<>>
                /\ marshalFailed' = IF filename_cstr.ok THEN marshalFailed
                                    ELSE marshalFailed \cup {i}
           ELSE /\ last' = [Event("JS_EvaluateUCScript", i, "called") EXCEPT
                              !.text = script, !.name = filename,
                              !.line_num = line_num,
                              !.native = [cx |-> Runtime_cx(i), global |-> global,
                                          ptr |-> buf.ptr, len |-> buf.len,
                                          filename |-> filename_cstr.bytes,
                                          line |-> as_c_uint(line_num)]]
                /\ stack' = Append(stack, [kind |-> "eval", slot |-> i, tok |-> 0,
                                         diag |-> FALSE])
                /\ UNCHANGED <<marshalFailed, aborted>>
    /\ UNCHANGED <<heap, held, nlog, wcLog>>

\* EvalReturn, were the native calls queued: the oldest call in progress
\* completes first.
EvalReturn_Queued(status) ==
    /\ ~aborted
    /\ stack # <<>>
    /\ stack[Len(stack)].kind = "eval"
    /\ last' = [Event("evaluate_script", stack[1].slot, EvalResult(status))
                  EXCEPT !.status = status, !.diag = stack[1].diag]
    /\ stack' = Tail(stack)
    /\ UNCHANGED <<heap, held, nlog, marshalFailed, wcLog, aborted>>

\* JS_EvaluateUCScript returns `status` and evaluate_script maps it.
EvalReturn(status) ==
    /\ ~aborted
    /\ stack # <<>>
    /\ stack[Len(stack)].kind = "eval"
    /\ last' = [Event("evaluate_script", stack[Len(stack)].slot, EvalResult(status))
                  EXCEPT !.status = status, !.diag = stack[Len(stack)].diag]
    /\ stack' = SubSeq(stack, 1, Len(stack) - 1)
    /\ UNCHANGED <<heap, held, nlog, marshalFailed, wcLog, aborted>>

\* The context of engine i exists: created and not yet destroyed.
ContextLive(i) ==
    /\ heap[i].built
    /\ Count(nlog[i], "JS_DestroyContext") = 0

\* The calls in progress, each marked as having seen a DiagnosticRecord.
Diagnosed(frames) ==
    [k \in 1..Len(frames) |-> [frames[k] EXCEPT !.diag = TRUE]]

\* A call of reportError(_cx, msg, report), which is pub extern "C": the
\* caller is native code, and the calls in progress wait for its return.
ReportCall(msg, report) ==
    /\ ~aborted
    /\ LET r == reportError(msg, report)
       IN  IF r.panic
           THEN /\ \E e \in PanicEnds(TRUE) :
                     /\ last' = [Panicked("reportError", 0, e, r.line) EXCEPT
                                   !.msg = msg, !.report = report]
                     /\ aborted' = (e = "abort")
                /\ stack' = <<>>
           ELSE /\ last' = [Event("reportError", 0, "returned") EXCEPT
                              !.emitted = r.emitted,
                              !.msg = msg, !.report = report]
                /\ stack' = Diagnosed(stack)
                /\ UNCHANGED aborted
    /\ UNCHANGED <<heap, held, nlog, marshalFailed, wcLog>>

\* The engine calls the error reporter installed on one of its contexts;
\* reportError does not use the context.
Report(msg, report) ==
    /\ \E i \in Slots : ContextLive(i)
    /\ ReportCall(msg, report)

\* ---------------------------------------------------------- with_compartment
Enters == Count(wcLog, "JS_EnterCrossCompartmentCall")

\* with_compartment(cx, object, cb) up to the call of cb: the native enter
\* call returns the token `call`.
WcEnter(cx, object) ==
    /\ ~aborted
    /\ Len(stack) < MaxDepth
    /\ Enters < MaxEnters
    /\ LET call == Enters + 1
       IN  /\ wcLog' = Append(wcLog, [call |-> "JS_EnterCrossCompartmentCall",
                                      cx |-> cx, object |-> object, tok |-> call])
           /\ stack' = Append(stack, [kind |-> "wc", slot |-> 0, tok |-> call,
                                     diag |-> FALSE])
    /\ last' = Event("JS_EnterCrossCompartmentCall", 0, "called")
    /\ UNCHANGED <<heap, held, nlog, marshalFailed, aborted>>

\* WcReturn, were the token of the outermost call in progress passed to the
\* native leave call.
WcReturn_OutermostToken(result) ==
    /\ ~aborted
    /\ stack # <<>>
    /\ stack[Len(stack)].kind = "wc"
    /\ wcLog' = Append(wcLog, [call |-> "JS_LeaveCrossCompartmentCall",
                               cx |-> NULL, object |-> NULL,
                               tok |-> stack[1].tok])
    /\ stack' = SubSeq(stack, 1, Len(stack) - 1)
    /\ last' = [Event("with_compartment", 0, "returned") EXCEPT !.ret = result]
    /\ UNCHANGED <<heap, held, nlog, marshalFailed, aborted>>

\* cb() returns `result`: the native leave call, then the result.
WcReturn(result) ==
    /\ ~aborted
    /\ stack # <<>>
    /\ stack[Len(stack)].kind = "wc"
    /\ wcLog' = Append(wcLog, [call |-> "JS_LeaveCrossCompartmentCall",
                               cx |-> NULL, object |-> NULL,
                               tok |-> stack[Len(stack)].tok])
    /\ stack' = SubSeq(stack, 1, Len(stack) - 1)
    /\ last' = [Event("with_compartment", 0, "returned") EXCEPT !.ret = result]
    /\ UNCHANGED <<heap, held, nlog, marshalFailed, aborted>>

\* cb() panics: the unwinding leaves with_compartment at the call of cb.
WcPanic ==
    /\ ~aborted
    /\ stack # <<>>
    /\ stack[Len(stack)].kind = "wc"
    /\ \E e \in PanicEnds(InNative) :
         /\ last' = Panicked("with_compartment", 0, e, 175)
         /\ aborted' = (e = "abort")
    /\ stack' = <<>>
    /\ UNCHANGED <<heap, held, nlog, marshalFailed, wcLog>>

\* ------------------------------------------------------------------ inputs
RECURSIVE SeqsUpTo(_, _)
SeqsUpTo(S, n) ==
    IF n = 0 THEN {<<>>}
    ELSE LET shorter == SeqsUpTo(S, n - 1)
         IN  shorter \cup {Append(q, x) : q \in shorter, x \in S}

ScriptChars == {49, 128512}          \* '1' and a character above U+FFFF
NameChars   == {116, 0}              \* 't' and NUL
Scripts     == SeqsUpTo(ScriptChars, MaxScriptLen)
Names       == SeqsUpTo(NameChars, MaxNameLen)
LineNums    == {[hi |-> 0, lo |-> 1], [hi |-> 1, lo |-> 1]}
Globals     == {1}
Statuses    == {ERR, 1, 2}

\* The call of test::dummy.
DummyScript == <<49, 32, 43, 32, 49>>      \* "1 + 1"
DummyName   == <<116, 101, 115, 116>>      \* "test"

\* rt.evaluate_script(global, "1 + 1", "test", 1)
EvalDummy(i) == \E g \in Globals : EvalBegin(i, g, DummyScript, DummyName, usize(1))

\* rt.evaluate_script(global, script, filename, 1)
Evaluate(i) ==
    \E g \in Globals, s \in Scripts, f \in Names :
        EvalBegin(i, g, s, f, usize(1))

\* rt.evaluate_script(global, script, "test", line_num)
EvaluateAt(i) ==
    \E g \in Globals, s \in Scripts, n \in LineNums :
        EvalBegin(i, g, s, DummyName, n)

NativeReturns == \E st \in Statuses : EvalReturn(st)

ReportBytes == {65, 195, 169}        \* 'A' and the two bytes of U+00E9
CStrings    == {CStr(b) : b \in SeqsUpTo(ReportBytes, MaxBytes)}
CNames      == {CStr(b) : b \in SeqsUpTo(ReportBytes, MaxNameLen)} \cup {NullStr}
LineNos     == {1, 2}
Objects     == {1, 2}
Results     == {0, 1}

\* The engine reports an error or a warning.
\* The reports the engine makes during the evaluations: an error in a
\* named source, a warning without a source name, and a message that is not
\* UTF-8.
EngineReportCases ==
    { [msg |-> CStr(<<65>>), report |-> [filename |-> CStr(<<65>>), lineno |-> 1]],
      [msg |-> CStr(<<195, 169>>), report |-> [filename |-> NullStr, lineno |-> 2]],
      [msg |-> CStr(<<195>>), report |-> [filename |-> NullStr, lineno |-> 1]] }

EngineReports ==
    \E r \in EngineReportCases : Report(r.msg, r.report)

\* Native code calls the exported reportError with a report of its own.
ReporterCalled ==
    \E m \in CStrings, f \in CNames, n \in LineNos :
        ReportCall(m, [filename |-> f, lineno |-> n])

\* with_compartment(cx, object, cb), entered
Enter == \E o \in Objects : WcEnter(1, o)

\* cb returns
BodyReturns == \E r \in Results : WcReturn(r)

Next ==
    \/ New
    \/ \E i \in Slots : Clone(i)
    \/ \E i \in Slots : CloneRt(i)
    \/ \E i \in Slots : CloneCx(i)
    \/ \E i \in Slots : DropRuntime(i)
    \/ \E i \in Slots : DropRt(i)
    \/ \E i \in Slots : DropCx(i)
    \/ \E i \in Slots : EvalDummy(i)
    \/ NativeReturns

Spec == Init /\ [][Next]_vars

\* Evaluation with every input, on Runtimes that are built and dropped.
NextEval ==
    \/ New
    \/ \E i \in Slots : DropRuntime(i)
    \/ \E i \in Slots : Evaluate(i)
    \/ NativeReturns

SpecEval == Init /\ [][NextEval]_vars

\* Evaluation of every script from every starting line.
NextLines ==
    \/ New
    \/ \E i \in Slots : EvaluateAt(i)
    \/ NativeReturns

SpecLines == Init /\ [][NextLines]_vars

\* The error reporter, called by the engine inside and outside evaluations.
NextReport ==
    \/ New
    \/ \E i \in Slots : EvalDummy(i)
    \/ NativeReturns
    \/ EngineReports

SpecReport == Init /\ [][NextReport]_vars

\* with_compartment, nested through its closures.
NextWc ==
    \/ Enter
    \/ BodyReturns
    \/ WcPanic

SpecWc == Init /\ [][NextWc]_vars

\* reportError alone, on every message and report.
NextBridge == ReporterCalled

SpecBridge == Init /\ [][NextBridge]_vars

\* ===================================================================== claims
Destroyed(i) == Count(nlog[i], "JS_DestroyContext")
Finished(i)  == Count(nlog[i], "JS_Finish")

\* Somebody still owns the context of engine i / the engine i.
CxOwned(i) == held[i].runtime + held[i].cx > 0
RtOwned(i) == held[i].runtime + held[i].rt + held[i].cx > 0

\* C1: whatever the order in which Runtime values and clones of their rt and
\* cx fields are made and dropped, every JS_Finish of an engine comes after
\* the JS_DestroyContext of the context created on it.
C1_DestroyBeforeFinish ==
    \A i \in Slots : \A k \in 1..Len(nlog[i]) :
        nlog[i][k].call = "JS_Finish" =>
            \E j \in 1..(k - 1) :
                /\ nlog[i][j].call = "JS_DestroyContext"
                /\ nlog[i][j].h = Runtime_cx(i)

\* An engine was finalized after one of several Runtime values was dropped.
C1_Witness ==
    \E i \in Slots : Finished(i) = 1 /\ held[i].dropped /\ heap[i].rtStrong = 0

\* C2: every engine is finalized at most once and every context destroyed at
\* most once, with its own pointer, never while a value that owns it is
\* held, and exactly once when all the values of its Runtime are dropped.
C2_FinalizedExactlyOnce ==
    \A i \in Slots :
        /\ Finished(i) <= 1
        /\ Destroyed(i) <= 1
        /\ Finished(i) = 1 => ~RtOwned(i)
        /\ Destroyed(i) = 1 => ~CxOwned(i)
        /\ (heap[i].built /\ ~RtOwned(i)) => (Finished(i) = 1 /\ Destroyed(i) = 1)
        /\ (heap[i].built /\ ~CxOwned(i)) => Destroyed(i) = 1
        /\ \A k \in 1..Len(nlog[i]) :
              /\ nlog[i][k].call = "JS_Finish" => nlog[i][k].h = EnginePtr(i)
              /\ nlog[i][k].call = "JS_DestroyContext" => nlog[i][k].h = ContextPtr(i)

\* Two independent Runtimes: one is finalized, the other is still held.
C2_Witness ==
    \E i, j \in Slots :
        /\ i # j
        /\ Finished(i) = 1 /\ Destroyed(i) = 1
        /\ held[j].runtime > 0 /\ Finished(j) = 0 /\ Destroyed(j) = 0

\* C3: while a Runtime value of an engine is held, neither its context is
\* destroyed nor its engine finalized, and every native evaluate call gets the
\* context of a held Runtime, not destroyed, on an engine not finalized.
C3_AliveWhileCloned ==
    /\ \A i \in Slots :
          held[i].runtime > 0 => (Destroyed(i) = 0 /\ Finished(i) = 0)
    /\ \A k \in 1..Len(stack) :
          stack[k].kind = "eval" =>
             /\ held[stack[k].slot].runtime > 0
             /\ Destroyed(stack[k].slot) = 0
             /\ Finished(stack[k].slot) = 0
    /\ last.op = "JS_EvaluateUCScript" =>
          /\ last.native.cx = ContextPtr(last.slot)
          /\ held[last.slot].runtime > 0
          /\ Destroyed(last.slot) = 0
          /\ Finished(last.slot) = 0

\* A Runtime value was dropped and a surviving clone evaluates.
C3_Witness ==
    /\ stack # <<>>
    /\ stack[Len(stack)].kind = "eval"
    /\ held[stack[Len(stack)].slot].dropped
    /\ last.op = "JS_EvaluateUCScript"
    /\ last.slot = stack[Len(stack)].slot

\* C4: whenever no with_compartment is in progress, whichever way the calls
\* ended, the native leave call has been made as often as the native enter
\* call.
C4_EnterLeavePaired ==
    stack = <<>> =>
        Count(wcLog, "JS_EnterCrossCompartmentCall")
            = Count(wcLog, "JS_LeaveCrossCompartmentCall")

\* C5: an evaluate_script that returns, returns Err(()) exactly when the
\* native status was ERR, and Ok(()) for every other status.
C5_ErrIffErrStatus ==
    (last.op = "evaluate_script" /\ last.res \notin {"panic", "abort"}) =>
        /\ last.res \in {"Ok", "Err"}
        /\ last.res = "Err" <=> last.status = ERR

\* An evaluation returned Ok on a status that is neither ERR nor 1.
C5_Witness ==
    /\ last.op = "evaluate_script"
    /\ last.res = "Ok"
    /\ last.status \notin {ERR, 1}

HasNul(s) == \E k \in 1..Len(s) : s[k] = 0

C7_TextPointerNonNull ==
    /\ last.op = "JS_EvaluateUCScript" =>
          /\ ~is_null(last.native.ptr)
          /\ last.text = <<>> =>
                (last.native.ptr = "empty" /\ last.native.len = 0)
          /\ last.text # <<>> =>
                (last.native.ptr # "empty" /\ last.native.len > 0)
    /\ (last.op = "evaluate_script" /\ last.res \in {"panic", "abort"}) =>
          (last.line = 97 /\ HasNul(last.name))
    /\ (last.op = "evaluate_script" /\ last.res \notin {"panic", "abort"}
        /\ last.status # ERR) => last.res = "Ok"

\* The native evaluate call was made for the empty script.
C7_Witness ==
    /\ last.op = "JS_EvaluateUCScript"
    /\ last.text = <<>>
    /\ last.native.ptr = "empty"
    /\ last.native.len = 0
    /\ stack # <<>>

\* C8: every call of reportError returns normally and has emitted exactly one
\* DiagnosticRecord.
C8_ReporterAlwaysReturns ==
    last.op = "reportError" =>
        (last.res = "returned" /\ Len(last.emitted) = 1)

\* C9: a Runtime::new whose JS_Init returns null issues no other native call,
\* one whose JS_NewContext returns null issues no configuration call, neither
\* yields a Runtime, and every Runtime that exists has non-null rt() and cx().
C9_NoNullHandles ==
    \A i \in Slots :
        /\ heap[i].built => (Runtime_rt(i) # NULL /\ Runtime_cx(i) # NULL)
        /\ RtOwned(i) => heap[i].built
        /\ (nlog[i] # <<>> /\ nlog[i][1].ret = NULL) =>
               (Len(nlog[i]) = 1 /\ ~heap[i].built)
        /\ \A k \in 1..Len(nlog[i]) :
               (nlog[i][k].call = "JS_NewContext" /\ nlog[i][k].ret = NULL) =>
                   (Len(nlog[i]) = k /\ ~heap[i].built)
        /\ (last.op = "new" /\ last.slot = i) =>
               (last.res = "Runtime" <=> heap[i].built)

\* A construction failed at JS_NewContext.
C9_Witness ==
    \E i \in Slots :
        /\ Len(nlog[i]) = 3
        /\ nlog[i][3].call = "JS_NewContext"
        /\ nlog[i][3].ret = NULL
        /\ last.op = "new" /\ last.res = "panic"

NewOrder ==
    << "JS_Init", "JS_SetGCParameter", "JS_NewContext", "JS_SetOptions",
       "JS_SetVersion", "JS_SetErrorReporter", "JS_SetGCZeal" >>

\* C10: the native calls of a Runtime::new are a prefix of create engine,
\* GC max bytes to u32::MAX, create context, options, latest version, error
\* reporter, GC zeal 0; all seven are made before a Runtime exists, hence
\* before any evaluation on it; and whatever follows them in the lifetime of
\* the engine is a destroy-context or a finalize call.
C10_ConstructionOrder ==
    \A i \in Slots :
        /\ \A k \in 1..Len(nlog[i]) :
              IF k <= Len(NewOrder)
              THEN nlog[i][k].call = NewOrder[k]
              ELSE nlog[i][k].call \in {"JS_DestroyContext", "JS_Finish"}
        /\ heap[i].built =>
              /\ Len(nlog[i]) >= Len(NewOrder)
              /\ nlog[i][2].arg = "JSGC_MAX_BYTES=u32::MAX"
              /\ nlog[i][2].h = Runtime_rt(i)
              /\ nlog[i][5].arg = "JSVERSION_LATEST"
              /\ nlog[i][6].arg = "reportError"
              /\ nlog[i][7].arg = "0"
              /\ \A k \in 4..7 : nlog[i][k].h = Runtime_cx(i)
        /\ \A k \in 1..Len(stack) :
              (stack[k].kind = "eval" /\ stack[k].slot = i) =>
                  Count(nlog[i], "JS_SetErrorReporter") = 1

\* An evaluation runs on a Runtime that was cloned or dropped before.
C10_Witness ==
    \E i \in Slots :
        /\ last.op = "JS_EvaluateUCScript" /\ last.slot = i
        /\ held[i].dropped
        /\ Len(nlog[i]) = Len(NewOrder)

\* C11: a step that clones a Runtime appends nothing to the native log and
\* changes nothing but the two strong counts of the cloned Runtime's cells,
\* each by one; rt() and cx() of a Runtime that was built give the pointers
\* its construction got, before and after every step.
C11_CloneSharesHandles ==
    [][ /\ \A i \in Slots :
              heap[i].built =>
                  /\ heap'[i].rt_ptr = heap[i].rt_ptr
                  /\ heap'[i].cx_ptr = heap[i].cx_ptr
                  /\ heap[i].rt_ptr = EnginePtr(i)
                  /\ heap[i].cx_ptr = ContextPtr(i)
        /\ last'.op = "clone" =>
              /\ nlog' = nlog
              /\ heap' = [heap EXCEPT ![last'.slot].rtStrong = @ + 1,
                                      ![last'.slot].cxStrong = @ + 1] ]_vars

\* A Runtime was cloned: two values share one engine and one context.
C11_Witness ==
    /\ last.op = "clone"
    /\ held[last.slot].runtime = 2
    /\ heap[last.slot].rtStrong = 3
    /\ heap[last.slot].cxStrong = 2
    /\ Len(nlog[last.slot]) = Len(NewOrder)

\* The native evaluate calls in progress on Runtime i.
InProgress(i) ==
    {k \in 1..Len(stack) : stack[k].kind = "eval" /\ stack[k].slot = i}

CodeUnits(text) ==
    Len(text) + Cardinality({k \in 1..Len(text) : text[k] > 65535})

\* C13: the native evaluate call gets as length the number of UTF-16 code
\* units of the script text and as line number the starting line
\* evaluate_script was given, neither truncated.
C13_LengthAndLineExact ==
    last.op = "JS_EvaluateUCScript" =>
        /\ last.native.len = CodeUnits(last.text)
        /\ usize(last.native.line) = last.line_num

\* C13, the length alone: it is the number of UTF-16 code units.
C13_LengthExact ==
    last.op = "JS_EvaluateUCScript" =>
        last.native.len = CodeUnits(last.text)

\* C14: when reportError returns it has written exactly one
\* DiagnosticRecord; its line number is the report's, its message is the text
\* whose UTF-8 bytes are the message bytes, and its source name is the text
\* whose UTF-8 bytes are the report's file name when that is non-null and
\* the four characters "none" when it is null.
C14_RecordCarriesReport ==
    (last.op = "reportError" /\ last.res = "returned") =>
        /\ Len(last.emitted) = 1
        /\ last.emitted[1].lineno = last.report.lineno
        /\ as_bytes(last.emitted[1].msg) = last.msg.bytes
        /\ IF last.report.filename.null
           THEN last.emitted[1].fname = <<110, 111, 110, 101>>
           ELSE as_bytes(last.emitted[1].fname) = last.report.filename.bytes

\* A report with a file name and a message with a character beyond ASCII
\* was recorded.
C14_Witness ==
    /\ last.op = "reportError"
    /\ last.res = "returned"
    /\ ~last.report.filename.null
    /\ last.emitted[1].fname = <<65>>
    /\ last.emitted[1].msg = <<233>>
    /\ last.emitted[1].lineno = 2

\* C15: the DiagnosticRecord of a report without a file name has the source
\* name "unknown".
C15_SentinelUnknown ==
    (last.op = "reportError" /\ last.res = "returned"
     /\ last.report.filename.null) =>
        /\ Len(last.emitted) = 1
        /\ last.emitted[1].fname = <<117, 110, 107, 110, 111, 119, 110>>

\* C15, amended: the DiagnosticRecord of a report without a file name has
\* the source name "none".
C15_SentinelNone ==
    (last.op = "reportError" /\ last.res = "returned"
     /\ last.report.filename.null) =>
        /\ Len(last.emitted) = 1
        /\ last.emitted[1].fname = <<110, 111, 110, 101>>

\* A report without a file name was recorded.
C15_Witness ==
    /\ last.op = "reportError"
    /\ last.res = "returned"
    /\ last.report.filename.null
    /\ Len(last.emitted) = 1
    /\ last.emitted[1].msg = <<65>>

IsEnter(k) == wcLog[k].call = "JS_EnterCrossCompartmentCall"
IsLeave(k) == wcLog[k].call = "JS_LeaveCrossCompartmentCall"

\* C16: a with_compartment whose closure returns makes the native enter call
\* with its cx and object when it is entered, and when the closure returns
\* makes one native leave call, with the token its own enter call returned
\* and that no leave call got before, and returns the closure's result; in
\* the log every leave call follows the enter call of its token, no token is
\* left twice, and of two calls the one entered later is left first.
C16_EnterBodyLeave ==
    /\ [](\A q \in 1..Len(wcLog) :
             IsLeave(q) =>
                 /\ \E p \in 1..(q - 1) :
                       IsEnter(p) /\ wcLog[p].tok = wcLog[q].tok
                 /\ \A q2 \in 1..Len(wcLog) :
                       (IsLeave(q2) /\ wcLog[q2].tok = wcLog[q].tok) => q2 = q
                 /\ \A p, p2 \in 1..(q - 1) :
                       (/\ IsEnter(p) /\ wcLog[p].tok = wcLog[q].tok
                        /\ IsEnter(p2) /\ p < p2) =>
                           \A q2 \in (q + 1)..Len(wcLog) :
                               ~(IsLeave(q2) /\ wcLog[q2].tok = wcLog[p2].tok))
    /\ [][ /\ last'.op = "JS_EnterCrossCompartmentCall" =>
                /\ Len(wcLog') = Len(wcLog) + 1
                /\ SubSeq(wcLog', 1, Len(wcLog)) = wcLog
                /\ wcLog'[Len(wcLog')].call = "JS_EnterCrossCompartmentCall"
                /\ \A k \in 1..Len(wcLog) :
                      wcLog[k].tok # wcLog'[Len(wcLog')].tok
                /\ stack' = Append(stack, [kind |-> "wc", slot |-> 0,
                                           tok |-> wcLog'[Len(wcLog')].tok,
                                           diag |-> FALSE])
          /\ (last'.op = "with_compartment" /\ last'.res = "returned") =>
                /\ stack # <<>>
                /\ stack' = SubSeq(stack, 1, Len(stack) - 1)
                /\ wcLog' = Append(wcLog,
                                   [call |-> "JS_LeaveCrossCompartmentCall",
                                    cx |-> NULL, object |-> NULL,
                                    tok |-> stack[Len(stack)].tok])
                /\ \A r \in Results : WcReturn(r) => last'.ret = r ]_vars

\* Two nested with_compartment calls returned: the inner one, entered last,
\* was left first, and the outer one returned its closure's result 1.
C16_Witness ==
    /\ Len(wcLog) = 4
    /\ IsEnter(1) /\ IsEnter(2) /\ IsLeave(3) /\ IsLeave(4)
    /\ wcLog[1].object # wcLog[2].object
    /\ wcLog[3].tok = wcLog[2].tok
    /\ wcLog[4].tok = wcLog[1].tok
    /\ stack = <<>>
    /\ last.op = "with_compartment" /\ last.ret = 1

\* Runtime::new of slot i got an engine and then a null context.
ContextFailed(i) ==
    /\ Len(nlog[i]) >= 3
    /\ nlog[i][1].call = "JS_Init" /\ nlog[i][1].ret # NULL
    /\ nlog[i][3].call = "JS_NewContext" /\ nlog[i][3].ret = NULL

\* C17: an engine whose Runtime::new got a null context is owned by no
\* handle, has no Runtime, and no JS_Finish is ever issued for it, whatever
\* the program does afterwards; an engine is finalized only if the
\* construction of its Runtime completed.
C17_FailedEngineNeverFinalized ==
    \A i \in Slots :
        /\ ContextFailed(i) =>
              /\ Finished(i) = 0
              /\ \A j \in Slots : \A k \in 1..Len(nlog[j]) :
                    nlog[j][k].call = "JS_Finish" =>
                        nlog[j][k].h # nlog[i][1].ret
              /\ ~heap[i].built
              /\ heap[i].rtStrong = 0
              /\ ~RtOwned(i)
        /\ Finished(i) > 0 => (heap[i].built /\ ~ContextFailed(i))

\* After a construction failed at the context, another Runtime was built and
\* dropped, and its engine finalized.
C17_Witness ==
    \E i, j \in Slots :
        /\ ContextFailed(i)
        /\ Len(nlog[i]) = 3
        /\ Finished(j) = 1
        /\ last.op = "drop" /\ last.slot = j

====
